---- MODULE Spec2Model ----
(***************************************************************************)
(* A Jupyter session over docs/tutorials/advanced/terra/pulse/             *)
(* adding_measurements.ipynb.  The state is the kernel's namespace and the *)
(* values the code cells bind; one action per code cell.  A cell runs its  *)
(* statements in order and stops at the first name it cannot look up       *)
(* (Python's NameError), keeping what the earlier statements bound.        *)
(***************************************************************************)
EXTENDS Integers, Sequences, FiniteSets

\* Bound on the kernel's execution counter (In [n]).
MaxExecutions == 8

\* ------------------------------------------------------------ literals

\* duration = 16000
ReadoutDuration == 16000
\* width = duration - 50
WidthMargin == 50
\* "a backend with this measurement map: [[0, 1, 2]]"
PlannedMeasMap == {{0, 1, 2}}

\* ------------------------------------------------------------ channels

MeasureChannel(i) == [type |-> "MeasureChannel", index |-> i]
AcquireChannel(i) == [type |-> "AcquireChannel", index |-> i]
MemorySlot(i) == [type |-> "MemorySlot", index |-> i]
\* The mem_slot of an instruction that writes no memory slot.
NoSlot == [type |-> "None", index |-> -1]

\* ------------------------------------------------------------ commands

\* GaussianSquare(duration=d, amp=0.2, sigma=10, width=d - 50)
GaussianSquare(d) == [name |-> "GaussianSquare", duration |-> d, width |-> d - WidthMargin]
\* Mutant: the acquisition window is the pulse's flat top, not its whole duration.
Acquire_FlatTopOnly(d) == [name |-> "Acquire", duration |-> d - WidthMargin, width |-> d - WidthMargin]
\* Acquire(duration): it takes only a duration, so its window has no rise or
\* fall and width is the whole of it (every command carries the same fields).
Acquire(d) == [name |-> "Acquire", duration |-> d, width |-> d]

\* command(channel): the command played on a channel, a schedule of one
\* instruction at time 0.
Instruction(cmd, ch, slot) ==
    [name |-> cmd.name, channel |-> ch, mem_slot |-> slot,
     t0 |-> 0, duration |-> cmd.duration, width |-> cmd.width]

\* ------------------------------------------------------------ schedules
\* A schedule is the set of its timed instructions.

Max(S) == IF S = {} THEN 0 ELSE CHOOSE x \in S : \A y \in S : y <= x

\* The channels an instruction occupies: an acquire occupies its memory slot too.
InstChannels(inst) ==
    {inst.channel} \cup (IF inst.mem_slot = NoSlot THEN {} ELSE {inst.mem_slot})

Channels(s) == UNION {InstChannels(inst) : inst \in s}

StopTime(inst) == inst.t0 + inst.duration

\* The latest stop time over the given channels, 0 when none is used.
ChStopTime(s, chans) ==
    Max({StopTime(inst) : inst \in {x \in s : InstChannels(x) \cap chans # {}}})

SchedDuration(s) == ChStopTime(s, Channels(s))

ScheduleShift(s, t) == {[inst EXCEPT !.t0 = @ + t] : inst \in s}

ScheduleInsert(s, t, other) == s \cup ScheduleShift(other, t)

\* s + other: other inserted at the latest stop time over the channels the two share.
ScheduleAppend(s, other) ==
    ScheduleInsert(s, ChStopTime(s, Channels(s) \cap Channels(other)), other)

\* ------------------------------------------------------------ the cells' values

\* GaussianSquare(duration=duration, ..., width=duration - 50)(MeasureChannel(0))
StimulusQ0(d) == {Instruction(GaussianSquare(d), MeasureChannel(0), NoSlot)}
\* Mutant: the second stimulus is put on MeasureChannel(0) again.
StimulusQ1_OnChannel0(d) == {Instruction(GaussianSquare(d), MeasureChannel(0), NoSlot)}
\* GaussianSquare(duration=duration, ..., width=duration - 50)(MeasureChannel(1))
StimulusQ1(d) == {Instruction(GaussianSquare(d), MeasureChannel(1), NoSlot)}
\* acquire(AcquireChannel(0), MemorySlot(0))
AcquireQ0(acq) == {Instruction(acq, AcquireChannel(0), MemorySlot(0))}
\* Mutant: the second acquire writes MemorySlot(0) again.
AcquireQ1_Slot0(acq) == {Instruction(acq, AcquireChannel(1), MemorySlot(0))}
\* acquire(AcquireChannel(1), MemorySlot(1))
AcquireQ1(acq) == {Instruction(acq, AcquireChannel(1), MemorySlot(1))}

\* The results of the backend-default builders are not determined by the
\* notebook: sched holds them as uninterpreted terms, in the order appended.
MeasureAllTerm == "measure_all(backend)"
MeasureTerm == "measure(qubits=[0], backend=backend, qubit_mem_slots={0: 1})"

\* ------------------------------------------------------------ the cells
\* A statement: the names it looks up, in evaluation order, the names it
\* binds, and its effect on the values.

Stmt(reads, writes, op) == [reads |-> reads, writes |-> writes, op |-> op]

Import(name) == Stmt(<<>>, {name}, "none")

\* Mutant: the cell imports but never binds backend.
Cell1_NoBackend ==
    << Import("IBMQ"), Import("Schedule"), Import("measure_all"), Import("FakeAlmaden") >>

Cell1 ==
    << Import("IBMQ"), Import("Schedule"), Import("measure_all"), Import("FakeAlmaden"),
       Stmt(<<"FakeAlmaden">>, {"backend"}, "none") >>

Cell2 ==
    << Stmt(<<"Schedule">>, {"sched"}, "sched_new"),
       Stmt(<<"sched", "measure_all", "backend">>, {"sched"}, "sched_measure_all"),
       Stmt(<<"sched">>, {}, "none") >>

Cell3 ==
    << Import("measure"),
       Stmt(<<"measure", "backend">>, {"sched"}, "sched_measure") >>

Cell4 ==
    << Import("MeasureChannel"), Import("AcquireChannel"), Import("MemorySlot"),
       Import("GaussianSquare"), Import("Acquire"),
       Stmt(<<>>, {"duration"}, "duration"),
       Stmt(<<"GaussianSquare", "duration", "duration", "MeasureChannel">>,
            {"measure_tx"}, "tx_q0"),
       Stmt(<<"measure_tx", "GaussianSquare", "duration", "duration", "MeasureChannel">>,
            {"measure_tx"}, "tx_q1") >>

Cell5 ==
    << Stmt(<<"Acquire", "duration">>, {"acquire"}, "acquire"),
       Stmt(<<"acquire", "AcquireChannel", "MemorySlot">>, {"measure_rx"}, "rx_q0"),
       Stmt(<<"measure_rx", "acquire", "AcquireChannel", "MemorySlot">>,
            {"measure_rx"}, "rx_q1") >>

Cell6 ==
    << Stmt(<<"measure_tx", "measure_rx">>, {"measure_sched"}, "combine"),
       Stmt(<<"measure_sched">>, {}, "none") >>

Cell7 ==
    << Import("qiskit.tools.jupyter"),
       Stmt(<<"qiskit.tools.jupyter">>, {}, "none"),
       Stmt(<<"qiskit.tools.jupyter">>, {}, "none") >>

Cells == << Cell1, Cell2, Cell3, Cell4, Cell5, Cell6, Cell7 >>

NCells == Len(Cells)

\* ------------------------------------------------------------ the kernel

VARIABLES
    defined,          \* the names bound in the kernel's namespace
    error,            \* the name the last cell run failed to look up, or NoError
    execution_count,  \* the kernel's execution counter
    top_down,         \* k: cells 1..k have run, once each, in order; OutOfOrder otherwise
    sched, duration, acquire, measure_tx, measure_rx, measure_sched

vars == << defined, error, execution_count, top_down,
           sched, duration, acquire, measure_tx, measure_rx, measure_sched >>

NoError == "none"
OutOfOrder == NCells + 1

\* The kernel's values as one record, for running statements.
Kernel ==
    [defined |-> defined, error |-> error, sched |-> sched, duration |-> duration,
     acquire |-> acquire, measure_tx |-> measure_tx, measure_rx |-> measure_rx,
     measure_sched |-> measure_sched]

\* The first name of reads that is not bound, or NoError.
FirstUnbound(reads, names) ==
    LET missing == {i \in 1..Len(reads) : reads[i] \notin names}
    IN IF missing = {} THEN NoError
       ELSE reads[CHOOSE i \in missing : \A j \in missing : i <= j]

\* The values after a statement whose names are all bound.
Effect(op, k) ==
    CASE op = "sched_new" -> [k EXCEPT !.sched = <<>>]
      [] op = "sched_measure_all" -> [k EXCEPT !.sched = k.sched \o <<MeasureAllTerm>>]
      [] op = "sched_measure" -> [k EXCEPT !.sched = <<MeasureTerm>>]
      [] op = "duration" -> [k EXCEPT !.duration = ReadoutDuration]
      [] op = "tx_q0" -> [k EXCEPT !.measure_tx = StimulusQ0(k.duration)]
      [] op = "tx_q1" ->
            [k EXCEPT !.measure_tx = ScheduleAppend(k.measure_tx, StimulusQ1(k.duration))]
      [] op = "acquire" -> [k EXCEPT !.acquire = Acquire(k.duration)]
      [] op = "rx_q0" -> [k EXCEPT !.measure_rx = AcquireQ0(k.acquire)]
      [] op = "rx_q1" ->
            [k EXCEPT !.measure_rx = ScheduleAppend(k.measure_rx, AcquireQ1(k.acquire))]
      [] op = "combine" ->
            [k EXCEPT !.measure_sched = ScheduleAppend(k.measure_tx, k.measure_rx)]
      [] OTHER -> k

\* Statements i.. of a cell, run from kernel k: stop at the first NameError.
RECURSIVE RunStmts(_, _, _)
RunStmts(stmts, i, k) ==
    IF i > Len(stmts) THEN k
    ELSE LET s == stmts[i]
             e == FirstUnbound(s.reads, k.defined)
         IN IF e # NoError THEN [k EXCEPT !.error = e]
            ELSE RunStmts(stmts, i + 1,
                          [Effect(s.op, k) EXCEPT !.defined = @ \cup s.writes])

Init ==
    /\ defined = {}
    /\ error = NoError
    /\ execution_count = 0
    /\ top_down = 0
    /\ sched = <<>>
    /\ duration = 0
    /\ acquire = Acquire(0)
    /\ measure_tx = {}
    /\ measure_rx = {}
    /\ measure_sched = {}

\* The user runs code cell c.
RunCell(c) ==
    /\ execution_count < MaxExecutions
    /\ LET k == RunStmts(Cells[c], 1, [Kernel EXCEPT !.error = NoError])
       IN /\ defined' = k.defined
          /\ error' = k.error
          /\ sched' = k.sched
          /\ duration' = k.duration
          /\ acquire' = k.acquire
          /\ measure_tx' = k.measure_tx
          /\ measure_rx' = k.measure_rx
          /\ measure_sched' = k.measure_sched
    /\ execution_count' = execution_count + 1
    /\ top_down' = IF top_down = c - 1 THEN c ELSE OutOfOrder

RunCell1 == RunCell(1)
RunCell2 == RunCell(2)
RunCell3 == RunCell(3)
RunCell4 == RunCell(4)
RunCell5 == RunCell(5)
RunCell6 == RunCell(6)
RunCell7 == RunCell(7)

Next ==
    \/ RunCell1
    \/ RunCell2
    \/ RunCell3
    \/ RunCell4
    \/ RunCell5
    \/ RunCell6
    \/ RunCell7

Spec == Init /\ [][Next]_vars

\* ------------------------------------------------------------ properties

Bound(name) == name \in defined

Acquires(s) == {inst \in s : inst.name = "Acquire"}
Pulses(s) == {inst \in s : inst.name = "GaussianSquare"}

\* Two instructions occupy a common channel at a common time.
Overlap(a, b) ==
    /\ InstChannels(a) \cap InstChannels(b) # {}
    /\ a.t0 < StopTime(b)
    /\ b.t0 < StopTime(a)

\* Every meas_map group the schedule acquires from is acquired whole, in one window.
AcquiresWholeGroups(s, meas_map) ==
    \A g \in meas_map : \A a \in Acquires(s) :
        a.channel.index \in g =>
            \A q \in g : \E b \in Acquires(s) :
                /\ b.channel = AcquireChannel(q)
                /\ b.t0 = a.t0
                /\ b.duration = a.duration

\* C1: measure_sched, built for a backend with measurement map [[0, 1, 2]],
\* acquires every qubit of each measurement-map group it acquires from, in
\* the same time window.
C1_MeasureSchedAcquiresWholeGroups ==
    Bound("measure_sched") => AcquiresWholeGroups(measure_sched, PlannedMeasMap)

AllAtZero(s) == \A inst \in s : inst.t0 = 0

\* C3: each append of the hand-built schedule (the two += and the final +)
\* places its instruction at time 0; measure_sched holds four instructions on
\* pairwise different channels, none overlapping another on a channel.
C3_AppendsScheduleAtTimeZero ==
    /\ Bound("measure_tx") => AllAtZero(measure_tx)
    /\ Bound("measure_rx") => AllAtZero(measure_rx)
    /\ Bound("measure_sched") =>
          /\ AllAtZero(measure_sched)
          /\ Cardinality(measure_sched) = 4
          /\ {inst.channel : inst \in measure_sched} =
                {MeasureChannel(0), MeasureChannel(1), AcquireChannel(0), AcquireChannel(1)}
          /\ \A a, b \in measure_sched :
                a # b => InstChannels(a) \cap InstChannels(b) = {} /\ ~Overlap(a, b)

C3_Witness ==
    /\ Bound("measure_sched")
    /\ Cardinality(measure_sched) = 4
    /\ Cardinality(Channels(measure_sched)) = 6

C9_TopDownRunHasNoNameError ==
    top_down \in 1..NCells => error = NoError

C9_Witness ==
    /\ top_down = NCells
    /\ error = NoError
    /\ execution_count = NCells
    /\ Bound("measure_sched")

\* C10: in measure_sched, for q in {0, 1} the pulse on MeasureChannel(q) and
\* the acquire on AcquireChannel(q) both occupy [0, 16000); every pulse's
\* width is positive and smaller than its duration; the schedule lasts 16000.
C10_AcquireWindowCoincidesWithStimulus ==
    Bound("measure_sched") =>
        /\ \A q \in {0, 1} :
              /\ \E p \in Pulses(measure_sched) : p.channel = MeasureChannel(q)
              /\ \E a \in Acquires(measure_sched) : a.channel = AcquireChannel(q)
        /\ \A inst \in measure_sched :
              /\ inst.t0 = 0
              /\ StopTime(inst) = ReadoutDuration
        /\ \A p \in Pulses(measure_sched) :
              /\ p.width = p.duration - WidthMargin
              /\ 0 < p.width
              /\ p.width < p.duration
        /\ SchedDuration(measure_sched) = ReadoutDuration

C10_Witness ==
    /\ Bound("measure_sched")
    /\ SchedDuration(measure_sched) = ReadoutDuration
    /\ \E p \in Pulses(measure_sched) : \E a \in Acquires(measure_sched) :
          p.channel.index = a.channel.index /\ p.t0 = a.t0 /\ p.duration = a.duration

====
